---- MODULE Spec2Model ----
(***************************************************************************)
(* Model of js/plugins/google-cloud/src/otel-compat.ts: the ResourceWrapper *)
(* class and the four factory functions built on the OpenTelemetry 2.0      *)
(* resource functions.                                                      *)
(*                                                                          *)
(* A JavaScript value is a record [prim, fields]: prim is "object" for an   *)
(* object (fields holds its own enumerable properties) and the literal of   *)
(* the primitive otherwise (fields is then empty).  A native resource is a  *)
(* record [attributes |-> value]; the heap is the sequence of the native    *)
(* resources and the sequence of the wrappers built so far, a wrapper       *)
(* holding the index of the native resource in its _resource field.         *)
(***************************************************************************)
EXTENDS Integers, Sequences, FiniteSets, TLC

\* Most resources the heap may hold.
MaxResources == 3

\* Property names used in the attribute mappings and detector results.
Keys == {"attributes", "a"}
\* Property names of a detector result other than `attributes`.
OtherKeys == Keys \ {"attributes"}
\* Attribute values of the inputs: the numbers 0 (falsy) and 1 (truthy).
AttrVals == {"0", "1"}
\* Primitives a detector result may be.
Primitives == {"undefined", "null", "0", "1", "false", "true", "''"}
\* Primitives the `attributes` property of a detector result may hold.  A
\* truthy value that is not a mapping would be handed to the library outside
\* its parameter type, where its result is not defined here.
FieldPrims == {"null", "0"}
\* Failures the library's factory functions may end with.
Errors == {"TypeError", "RangeError"}

\* natives:  the native resources the library has returned, in order of
\*           creation; a native resource is known by its index.
\* wrappers: the ResourceWrapper instances built so far, in order of creation.
\* last:     the last call: operation, argument (input, or the indices this
\*           and other of a merge), the failure of the library call (thrown),
\*           the exception the call ended with (error) and the index of the
\*           wrapper it returned (result, 0 when it returned none).
VARIABLES natives, wrappers, last
vars == <<natives, wrappers, last>>

----------------------------------------------------------------------------
\* JavaScript values

NoFields == [k \in {} |-> 0]
Prim(p) == [prim |-> p, fields |-> NoFields]
Obj(f) == [prim |-> "object", fields |-> f]
undefined == Prim("undefined")
EmptyObject == Obj(NoFields)

\* Conversion to boolean, as `&&` and `if` apply it.
Truthy(v) == v.prim \notin {"undefined", "null", "0", "false", "''"}

\* The typeof operator.
typeof(v) ==
  CASE v.prim \in {"object", "null"} -> "object"
    [] v.prim = "undefined" -> "undefined"
    [] v.prim \in {"0", "1"} -> "number"
    [] v.prim \in {"false", "true"} -> "boolean"
    [] OTHER -> "string"

\* Property read v.k on a value that is neither null nor undefined.
Get(v, k) == IF k \in DOMAIN v.fields THEN v.fields[k] ELSE undefined

\* Own enumerable properties, as an object spread copies them (none for
\* null, undefined, numbers, booleans and the empty string).
OwnProps(v) == v.fields

\* { ...x, ...y } with the operands' precedence exchanged.
Spread2_firstWins(x, y) ==
  Obj([k \in DOMAIN OwnProps(x) \cup DOMAIN OwnProps(y) |->
         IF k \in DOMAIN OwnProps(x) THEN OwnProps(x)[k] ELSE OwnProps(y)[k]])

\* { ...x, ...y }
Spread2(x, y) ==
  Obj([k \in DOMAIN OwnProps(x) \cup DOMAIN OwnProps(y) |->
         IF k \in DOMAIN OwnProps(y) THEN OwnProps(y)[k] ELSE OwnProps(x)[k]])

\* The objects over a set of keys with values from a set of primitives.
ObjectsOver(ks, ps) ==
  {Obj(f) : f \in UNION {[S -> {Prim(p) : p \in ps}] : S \in SUBSET ks}}

\* Attribute mappings passed to createResource.
AttrMaps == ObjectsOver(Keys, AttrVals)

\* Arguments of createResource: a mapping, or undefined when omitted.
CreateArgs == AttrMaps \cup {undefined}

\* Detector results: primitives, and objects whose `attributes` property is
\* absent, a primitive or an attribute mapping.
DetectorResults ==
  {Prim(p) : p \in Primitives}
  \cup ObjectsOver(OtherKeys, AttrVals)
  \cup {Obj([k \in DOMAIN o.fields \cup {"attributes"} |->
              IF k = "attributes" THEN v ELSE o.fields[k]]) :
          o \in ObjectsOver(OtherKeys, AttrVals),
          v \in {Prim(p) : p \in FieldPrims} \cup AttrMaps}

----------------------------------------------------------------------------
\* The factory functions imported from @opentelemetry/resources, on success.
\* Their code is not part of the module; they are taken to do what the module
\* calls them for: resourceFromAttributes gives a resource holding the mapping
\* it was built from, emptyResource one with no attributes, defaultResource
\* one with a fixed baseline mapping.

resourceFromAttributes(attributes) == [attributes |-> attributes]
DefaultAttributes == Obj([k \in {"a"} |-> Prim("1")])
defaultResource == [attributes |-> DefaultAttributes]
emptyResource == [attributes |-> EmptyObject]

\* Outcomes of a factory call: it returns, or it throws one of Errors.
LibOutcomes == {"ok"} \cup Errors

----------------------------------------------------------------------------
\* ResourceWrapper

ResourceWrapper(resource) == [_resource |-> resource]
getNativeResource(w) == natives[w._resource]

\* A getter reading this._resource.attributes.attributes.
attributes_nested(w) == Get(natives[w._resource].attributes, "attributes")

attributes(w) == natives[w._resource].attributes

\* A merge that spreads only the other resource's attributes.
mergedAttributes_otherOnly(this, other) ==
  Spread2(EmptyObject, getNativeResource(other).attributes)

mergedAttributes(this, other) ==
  Spread2(natives[this._resource].attributes, getNativeResource(other).attributes)

\* createResource without the default parameter value.
CreateResourceAttributes_noDefault(arg) == arg

\* Attributes createResource builds from: the default parameter value {}
\* replaces an omitted (undefined) argument.
CreateResourceAttributes(arg) == IF arg = undefined THEN EmptyObject ELSE arg

\* createResourceFromDetector whose second test never succeeds.
DetectorAttributes_noObject(detectorResult) ==
  IF Truthy(detectorResult) /\ Truthy(Get(detectorResult, "attributes"))
    THEN Get(detectorResult, "attributes")
  ELSE EmptyObject

\* createResourceFromDetector whose second test is only the typeof test.
DetectorAttributes_typeofOnly(detectorResult) ==
  IF Truthy(detectorResult) /\ Truthy(Get(detectorResult, "attributes"))
    THEN Get(detectorResult, "attributes")
  ELSE IF typeof(detectorResult) = "object"
    THEN detectorResult
  ELSE EmptyObject

\* Attributes createResourceFromDetector builds from.
DetectorAttributes(detectorResult) ==
  IF Truthy(detectorResult) /\ Truthy(Get(detectorResult, "attributes"))
    THEN Get(detectorResult, "attributes")
  ELSE IF Truthy(detectorResult) /\ typeof(detectorResult) = "object"
    THEN detectorResult
  ELSE EmptyObject

\* Reading a property of null or undefined throws a TypeError.
GetThrows(v) == v.prim \in {"undefined", "null"}

\* createResourceFromDetector reads detectorResult.attributes only behind
\* `detectorResult &&`, that is only when detectorResult is truthy.
DetectorThrows(detectorResult) ==
  Truthy(detectorResult) /\ GetThrows(detectorResult)

\* An exception caught and replaced by another one.
Propagate_wrapped(e) == "CompatError"

\* An exception leaving a function that has no try/catch around the call.
Propagate(e) == e

NoCall == [op |-> "none", input |-> undefined, this |-> 0, other |-> 0,
           thrown |-> "none", error |-> "none", result |-> 0]

\* A merge that writes the merged attributes into its receiver and returns
\* the receiver.
Allocate_inPlace(op, input, this, other, native) ==
  IF this = 0
    THEN /\ natives' = Append(natives, native)
         /\ wrappers' = Append(wrappers, ResourceWrapper(Len(natives) + 1))
         /\ last' = [op |-> op, input |-> input, this |-> this, other |-> other,
                     thrown |-> "none", error |-> "none",
                     result |-> Len(wrappers) + 1]
    ELSE /\ natives' = [natives EXCEPT ![wrappers[this]._resource] = native]
         /\ wrappers' = wrappers
         /\ last' = [op |-> op, input |-> input, this |-> this, other |-> other,
                     thrown |-> "none", error |-> "none", result |-> this]

\* `return new ResourceWrapper(resource)`: a new wrapper around a new native
\* resource; nothing that exists is touched.
Allocate(op, input, this, other, native) ==
  /\ natives' = Append(natives, native)
  /\ wrappers' = Append(wrappers, ResourceWrapper(Len(natives) + 1))
  /\ last' = [op |-> op, input |-> input, this |-> this, other |-> other,
              thrown |-> "none", error |-> "none", result |-> Len(wrappers) + 1]

\* The call ends with error e; thrown is the failure of the library call
\* ("none" when the library was not the one to fail).  A failed call is
\* recorded by its operation and its failure.
Fail(op, thrown, e) ==
  /\ UNCHANGED <<natives, wrappers>>
  /\ last' = [NoCall EXCEPT !.op = op, !.thrown = thrown, !.error = e]

\* A factory body: `const resource = <library call>; return new
\* ResourceWrapper(resource);`.  The library call returns native or throws.
Construct(op, input, this, other, native, outcome) ==
  /\ Len(wrappers) < MaxResources
  /\ IF outcome = "ok"
       THEN Allocate(op, input, this, other, native)
       ELSE Fail(op, outcome, Propagate(outcome))

Init ==
  /\ natives = <<>>
  /\ wrappers = <<>>
  /\ last = NoCall

createResource ==
  \E arg \in CreateArgs, outcome \in LibOutcomes :
    Construct("createResource", arg, 0, 0,
              resourceFromAttributes(CreateResourceAttributes(arg)), outcome)

getDefaultResource ==
  \E outcome \in LibOutcomes :
    Construct("getDefaultResource", undefined, 0, 0, defaultResource, outcome)

\* getEmptyResource calling defaultResource().
getEmptyResource_default ==
  \E outcome \in LibOutcomes :
    Construct("getEmptyResource", undefined, 0, 0, defaultResource, outcome)

getEmptyResource ==
  \E outcome \in LibOutcomes :
    Construct("getEmptyResource", undefined, 0, 0, emptyResource, outcome)

createResourceFromDetector ==
  \E detectorResult \in DetectorResults, outcome \in LibOutcomes :
    IF DetectorThrows(detectorResult)
      THEN /\ Len(wrappers) < MaxResources
           /\ Fail("createResourceFromDetector", "none", "TypeError")
      ELSE Construct("createResourceFromDetector", detectorResult, 0, 0,
                     resourceFromAttributes(DetectorAttributes(detectorResult)),
                     outcome)

merge ==
  \E this \in DOMAIN wrappers, other \in DOMAIN wrappers, outcome \in LibOutcomes :
    Construct("merge", undefined, this, other,
              resourceFromAttributes(mergedAttributes(wrappers[this], wrappers[other])),
              outcome)

Next ==
  \/ createResource
  \/ getDefaultResource
  \/ getEmptyResource
  \/ createResourceFromDetector
  \/ merge

Spec == Init /\ [][Next]_vars

TypeOK ==
  /\ Len(natives) <= MaxResources
  /\ Len(wrappers) = Len(natives)
  /\ \A i \in DOMAIN wrappers : wrappers[i]._resource \in DOMAIN natives

----------------------------------------------------------------------------
\* Properties

\* The last call was op and returned a resource.
Returned(op) == last.op = op /\ last.result > 0
\* Attributes of the resource the last call returned.
ResultAttributes == attributes(wrappers[last.result])
\* Own keys of an attribute mapping.
KeysOf(a) == DOMAIN a.fields

\* C1: R1.merge(R2).attributes is the mapping over the union of the keys of
\* A1 and A2 that has A2's value at every key of A2 and A1's value at every
\* key only in A1, whatever built R1 and R2.
C1_MergeOverlays ==
  Returned("merge") =>
    LET A1 == attributes(wrappers[last.this])
        A2 == attributes(wrappers[last.other])
        M == ResultAttributes
    IN /\ M.prim = "object"
       /\ KeysOf(M) = KeysOf(A1) \cup KeysOf(A2)
       /\ \A k \in KeysOf(A2) : M.fields[k] = A2.fields[k]
       /\ \A k \in KeysOf(A1) \ KeysOf(A2) : M.fields[k] = A1.fields[k]

\* A merge has returned whose operands collide on a key with different
\* values and whose first operand has a key the second lacks.
C1_Witness ==
  /\ Returned("merge")
  /\ LET A1 == attributes(wrappers[last.this])
         A2 == attributes(wrappers[last.other])
     IN /\ \E k \in KeysOf(A1) \cap KeysOf(A2) : A1.fields[k] # A2.fields[k]
        /\ KeysOf(A1) \ KeysOf(A2) # {}
        /\ KeysOf(A2) # {}

\* C2: no step changes the wrapper or the native resource of a resource that
\* exists, and a merge that returns gives a wrapper and a native resource
\* that did not exist before, also when both operands are one resource.
C2_NeverMutated ==
  [][/\ \A i \in DOMAIN wrappers :
          i \in DOMAIN wrappers' /\ wrappers'[i] = wrappers[i]
     /\ \A n \in DOMAIN natives :
          n \in DOMAIN natives' /\ natives'[n] = natives[n]
     /\ (last'.op = "merge" /\ last'.result > 0) =>
          /\ last'.result \notin DOMAIN wrappers
          /\ last'.result \in DOMAIN wrappers'
          /\ wrappers'[last'.result]._resource \notin DOMAIN natives]_vars

\* A resource with attributes has been merged with itself.
C2_Witness ==
  /\ Returned("merge")
  /\ last.this = last.other
  /\ KeysOf(attributes(wrappers[last.this])) # {}

\* C3: the attributes of every wrapper are the attributes of the native
\* resource its getNativeResource() returns.
C3_WrapperMatchesNative ==
  \A i \in DOMAIN wrappers :
    attributes(wrappers[i]) = getNativeResource(wrappers[i]).attributes

\* The heap holds a merged resource that has the `attributes` key, along
\* with factory-built ones.
C3_Witness ==
  /\ Returned("merge")
  /\ Len(wrappers) = MaxResources
  /\ "attributes" \in KeysOf(ResultAttributes)

\* C4: createResource(A).attributes is A, and the empty mapping when the
\* argument is omitted.
C4_CreateResource ==
  Returned("createResource") =>
    ResultAttributes = (IF last.input = undefined THEN EmptyObject ELSE last.input)

\* createResource has returned for a mapping with two keys.
C4_Witness ==
  /\ Returned("createResource")
  /\ last.input # undefined
  /\ Cardinality(KeysOf(last.input)) = 2
  /\ ResultAttributes = last.input

\* C5: for a detector result with an `attributes` field, whatever its value,
\* the resource's attributes are that value, and so hold none of the other
\* fields of the detector result.
C5_AttributesFieldUsed ==
  (/\ Returned("createResourceFromDetector")
   /\ last.input.prim = "object"
   /\ "attributes" \in KeysOf(last.input)) =>
    ResultAttributes = Get(last.input, "attributes")

\* C6: for an object without an `attributes` field the resource's attributes
\* are the object itself.
C6_ObjectUsedDirectly ==
  (/\ Returned("createResourceFromDetector")
   /\ last.input.prim = "object"
   /\ "attributes" \notin KeysOf(last.input)) =>
    ResultAttributes = last.input

\* createResourceFromDetector has returned for an object with one field that
\* is not `attributes`.
C6_Witness ==
  /\ Returned("createResourceFromDetector")
  /\ last.input.prim = "object"
  /\ KeysOf(last.input) = {"a"}
  /\ ResultAttributes = last.input

\* C7: createResourceFromDetector never fails unless the library call does,
\* and for a detector result that is not an object (null, undefined, a
\* number, a boolean, a string) it returns a resource with empty attributes.
C7_FallbackEmpty ==
  /\ (last.op = "createResourceFromDetector" /\ last.thrown = "none") =>
       (last.error = "none" /\ last.result > 0)
  /\ (Returned("createResourceFromDetector") /\ last.input.prim # "object") =>
       ResultAttributes = EmptyObject

\* createResourceFromDetector(null) has returned.
C7_Witness ==
  /\ Returned("createResourceFromDetector")
  /\ last.input = Prim("null")
  /\ ResultAttributes = EmptyObject

\* C8: getEmptyResource() returns a resource with empty attributes, whatever
\* the heap holds.
C8_EmptyResource ==
  Returned("getEmptyResource") => ResultAttributes = EmptyObject

\* getEmptyResource has returned after resources with attributes were built.
C8_Witness ==
  /\ Returned("getEmptyResource")
  /\ last.result > 1
  /\ KeysOf(attributes(wrappers[1])) # {}

\* C9: a step in which the library call throws ends with that very failure,
\* returns no resource and leaves the heap as it was.
C9_FailurePropagates ==
  [][last'.thrown # "none" =>
       /\ last'.error = last'.thrown
       /\ last'.result = 0
       /\ natives' = natives
       /\ wrappers' = wrappers]_vars

\* The library call of a merge has thrown.
C9_Witness ==
  /\ last.op = "merge"
  /\ last.thrown = "RangeError"
  /\ last.error = "RangeError"
  /\ Len(wrappers) >= 2

\* C10: merging with an empty resource on either side, or with itself,
\* gives the attributes of the resource.
C10_MergeIdentityIdempotent ==
  Returned("merge") =>
    LET A1 == attributes(wrappers[last.this])
        A2 == attributes(wrappers[last.other])
    IN /\ A2 = EmptyObject => ResultAttributes = A1
       /\ A1 = EmptyObject => ResultAttributes = A2
       /\ last.this = last.other => ResultAttributes = A1

\* A resource with attributes has been merged with one that getEmptyResource
\* built.
C10_Witness ==
  /\ Returned("merge")
  /\ last.this # last.other
  /\ attributes(wrappers[last.other]) = EmptyObject
  /\ KeysOf(attributes(wrappers[last.this])) # {}
  /\ ResultAttributes = attributes(wrappers[last.this])
====
